---------------------------- MODULE Spec2Model ----------------------------
(***************************************************************************)
(* featureSync of claude-worktree-agent-mcp: one sync attempt of a feature *)
(* worktree against main (fetch, rebase, conflict delegation to an         *)
(* external process, manual-recovery report).                              *)
(*                                                                         *)
(* The repository holds five drafts of featureSync:                        *)
(*   "M"  src/src/tools/feature-sync.ts (the one src/index.ts imports)     *)
(*   "P5" src/unnamed/part_005                                             *)
(*   "P6" src/unnamed/part_006                                             *)
(*   "P7" src/unnamed/part_007                                             *)
(*   "P8" src/unnamed/part_008                                             *)
(* impl selects the draft; every await of a draft is one action, named     *)
(* <draft>_<call>.  git, the file system and the external process are the  *)
(* environment: their outcomes are nondeterministic choices.               *)
(***************************************************************************)
EXTENDS Naturals, Sequences, FiniteSets

\* ------------------------------------------------------------------ bounds
MaxPaths == 2
\* the largest commit count a query reports
MaxAhead == 2
\* the longest CLAUDE_ARGS value, in characters
MaxArgsLen == 4

AllPaths == <<"src/a.ts", "src/b.ts", "src/c.ts", "src/d.ts">>
Paths == {AllPaths[i] : i \in 1..MaxPaths}

Impls == {"M", "P5", "P6", "P7", "P8"}

\* messages a rejected `git rebase` can carry
RebaseMsgs == {"CONFLICT", "Network error"}

VARIABLES
  impl,              \* which draft of featureSync runs
  projectRootSet,    \* process.env.PROJECT_ROOT is set
  worktreeExists,    \* fs.existsSync(worktreePath)
  upToDate,          \* main has no commit the feature branch lacks
  pc,                \* control point of the running attempt
  \* --- feature worktree and primary checkout
  rebaseInProgress,  \* .git/rebase-merge or .git/rebase-apply present
  conflicted,        \* status().conflicted, in git's order
  conflictsMd,       \* CONFLICTS.md at the worktree root: <<>> if absent, else its lines
  dirty,             \* uncommitted modifications in the worktree
  stash,             \* entries on the stash stack
  rootBranch,        \* branch checked out at the project root
  \* --- the running attempt
  loc,               \* its local variables (see NoLocals)
  calls,             \* calls it issued, in order
  outcome,           \* "none" | "clean" | "resolved" | "manual" | "thrown"
  thrown,            \* the error thrown to the caller
  startRebase,       \* rebaseInProgress when the attempt started
  startMd,           \* CONFLICTS.md existed when the attempt started
  startDirty,        \* the worktree had uncommitted modifications then
  startRoot,         \* the branch checked out at the project root then
  \* --- the launch of the external process
  envCommand,        \* process.env.CLAUDE_COMMAND
  envArgs,           \* process.env.CLAUDE_ARGS
  launched,          \* what execa was called with, NoLaunch before the call
  \* --- featureCleanup (src/tools/feature-revision.ts)
  featureName,       \* args.featureName, "" when absent
  force,             \* args.force
  all,               \* args.all
  worktrees,         \* the directories under .worktrees
  branches,          \* the features whose branch feature/<name> exists
  prState,           \* per feature, the state of its pull request
  targetWorktrees,   \* the worktrees the loop has yet to visit
  cleanupPc,         \* "idle" | "loop" | "done" | "thrown"
  cleanedCount,
  skippedCount,
  \* --- the tools that run in the working directory of the process
  cwd,               \* process.cwd(), as a sequence of directory names
  running,           \* the tool call under way or last made (see NoCall)
  toolPc,            \* where that call stands
  toolResult         \* "none" | "returned" | "thrown"

launchVars == <<envCommand, envArgs, launched>>
cleanupVars == <<featureName, force, all, worktrees, branches, prState,
                 targetWorktrees, cleanupPc, cleanedCount, skippedCount,
          cwd, running, toolPc, toolResult>>
toolVars == <<cwd, running, toolPc, toolResult>>
cfgVars == <<impl, projectRootSet, worktreeExists, upToDate, launchVars, cleanupVars,
            toolVars>>
repoVars == <<rebaseInProgress, conflicted>>
treeVars == <<dirty, stash, rootBranch>>
obsVars == <<outcome, thrown>>
startVars == <<startRebase, startMd, startDirty, startRoot>>

vars == <<impl, projectRootSet, worktreeExists, upToDate, pc, rebaseInProgress, conflicted,
          conflictsMd, dirty, stash, rootBranch, loc, calls, outcome, thrown,
          startRebase, startMd, startDirty, startRoot, envCommand, envArgs, launched,
          featureName, force, all, worktrees, branches, prState,
          targetWorktrees, cleanupPc, cleanedCount, skippedCount>>

\* ------------------------------------------------------------------ values
Range(s) == {s[i] : i \in 1..Len(s)}

\* the concatenation of a sequence of sequences
RECURSIVE Concat(_)
Concat(ss) == IF ss = <<>> THEN <<>> ELSE Head(ss) \o Concat(Tail(ss))

\* sequences over Paths without repetition: what status().conflicted can be
PathSeqs == UNION {{s \in [1..n -> Paths] : \A i, j \in 1..n : i # j => s[i] # s[j]}
                   : n \in 0..MaxPaths}

NoErr == [kind |-> "none", msg |-> <<>>]
\* an error rejected by a call of the environment
Err(k) == [kind |-> k, msg |-> <<k>>]
\* the error a rejected rebase carries
RebaseError(m) == [kind |-> "rebase", msg |-> <<m>>]
\* new Error(`${prefix}${e.message}`)
NewError(prefix, e) == [kind |-> "new", msg |-> <<prefix>> \o e.msg]

\* the locals of featureSync at entry
NoLocals ==
  [conflictedFiles |-> <<>>,   \* the conflicted list captured after the failed rebase
   rebaseErr |-> NoErr,        \* what the inner try caught (rebaseError)
   err |-> NoErr,              \* the error on its way to the caller
   failSeen |-> "unset",       \* status() right after the failed rebase:
                               \*   "unset" | "empty" | "conflicts" | "threw"
   wasDirty |-> FALSE,         \* P5: status.files.length > 0 before the rebase
   actualAhead |-> 0,          \* commits of the feature branch not on the base, after the rebase
   reportedAhead |-> 0,        \* the commits-ahead figure put in the success message
   popWarning |-> FALSE,       \* P5: stash pop was rejected, the warning line added
   leftAtReturn |-> FALSE,     \* conflicted paths remained when execa settled
   execResult |-> "none",      \* "none" | "returned" | "threw"
   finalSeen |-> "unset",      \* first status() after execa returned:
                               \*   "unset" | "empty" | "left" | "threw"
   continued |-> "none",       \* rebase --continue: "none" | "ok" | "failed"
   resolveSuccess |-> FALSE,   \* P5: resolveResult.success
   diffOk |-> FALSE]           \* P7, P8: git.diff worked during the analysis

\* ------------------------------------------------------------- environment
\* fs.existsSync(path.join(worktreePath, 'CONFLICTS.md'))
MdExists == conflictsMd # <<>>

\* What reading a conflicted file finds: conflict markers, a file without
\* markers (binary or mode conflict), or no file (deletion conflict).
FileKind(p) ==
  CASE p = "src/a.ts" -> "markers"
    [] p = "src/b.ts" -> "deleted"
    [] p = "src/c.ts" -> "binary"
    [] OTHER -> "markers"

\* path.basename(f)
Basename(p) ==
  CASE p = "src/a.ts" -> "a.ts"
    [] p = "src/b.ts" -> "b.ts"
    [] p = "src/c.ts" -> "c.ts"
    [] OTHER -> "d.ts"

\* the part of the text returned to the user that names the conflicted
\* files: conflictedFiles.join(', ') or one line per file; part_007 joins
\* the base names first and the paths in its step 2
Narrative(files) ==
  IF impl = "P7"
  THEN <<"Conflicts detected in ">> \o [i \in 1..Len(files) |-> Basename(files[i])]
       \o <<"2. Review conflicts in: ">> \o files
  ELSE <<"conflicts detected in ">> \o files

\* the part of the instructions for the external process that names them:
\* conflictedFiles.join(', ') or conflictedFiles.map(file => `- ${file}`)
TaskPrompt(files) == <<"Conflicts detected in: ">> \o files

\* a state of the worktree's rebase: metadata present, and the conflicted
\* paths in git's order (unmerged paths exist only inside a rebase)
RepoStates ==
  {o \in [rip : BOOLEAN, conf : PathSeqs] : o.conf # <<>> => o.rip}

Result(ok, o) == [ok |-> ok, rip |-> o.rip, conf |-> o.conf]

Here == [rip |-> rebaseInProgress, conf |-> conflicted]
Clean == [rip |-> FALSE, conf |-> <<>>]

\* Outcomes of `git rebase <onto>` in the worktree: it completes; or it
\* stops on conflicts (rebase left in progress, conflicted paths listed);
\* or it is rejected for another reason, with or without a rebase left in
\* progress.  With a rebase already in progress, or with uncommitted
\* modifications in the worktree, git rejects the command and changes nothing.
\* With nothing to replay the command is a no-op: it resolves, or is
\* rejected, and the worktree stays as it is.
GitRebase ==
  IF rebaseInProgress \/ dirty
  THEN {Result(FALSE, Here)}
  ELSE IF upToDate
  THEN {Result(TRUE, Clean), Result(FALSE, Clean)}
  ELSE {Result(TRUE, Clean)} \cup {Result(FALSE, o) : o \in RepoStates}

\* Outcomes of `git rebase --continue`: rejected when no rebase is in
\* progress or conflicted paths remain; otherwise the rebase completes, or
\* stops again (on the next commit's conflicts, or for another reason).
GitContinue ==
  IF ~rebaseInProgress \/ conflicted # <<>>
  THEN {Result(FALSE, Here)}
  ELSE {Result(TRUE, Clean)} \cup {Result(FALSE, o) : o \in {x \in RepoStates : x.rip}}

\* Outcome of `git rebase --abort`: it restores the pre-rebase tip and
\* removes the rebase metadata; with no rebase in progress it is rejected.
GitAbort ==
  IF rebaseInProgress THEN Result(TRUE, Clean) ELSE Result(FALSE, Here)

\* commit counts git can report
AheadValues == 0..MaxAhead

\* status().ahead: the commits of the checked-out branch that its upstream
\* (the tracking branch configured for it) lacks, <<n>>; <<>> is undefined
StatusAhead == {<<n>> : n \in AheadValues} \cup {<<>>}

\* branchStatus.ahead || 0
OrZero(v) == IF v = <<>> THEN 0 ELSE v[1]

\* git rev-list --left-right --count main...HEAD with a commits on HEAD only,
\* none on main only after a completed rebase: the fields of "0\ta"
RevListLeftRight(a) == <<0, a>>

\* What the external process can leave behind in the worktree it was given:
\* any conflicted list, with the rebase finished or aborted only when no
\* conflicted path is left.
AgentEffects == RepoStates

SetRepo(o) ==
  /\ rebaseInProgress' = o.rip
  /\ conflicted' = o.conf

\* --------------------------------------------------------------- attempt
Issue(c) == calls' = Append(calls, c)

Goto(l) ==
  /\ pc' = l
  /\ UNCHANGED obsVars

Return(kind) ==
  /\ pc' = "done"
  /\ outcome' = kind
  /\ thrown' = NoErr

Throw(e) ==
  /\ pc' = "done"
  /\ outcome' = "thrown"
  /\ thrown' = e

\* the error travels to the catch block at `handler`
Raise(e, handler) ==
  /\ loc' = [loc EXCEPT !.err = e]
  /\ Goto(handler)

\* the inner try catches e as rebaseError
Caught(e, handler) ==
  /\ loc' = [loc EXCEPT !.rebaseErr = e]
  /\ Goto(handler)

Entry(i) ==
  CASE i = "M" -> "M_checkIsRepo"
    [] i = "P5" -> "P5_checkIsRepo"
    [] i = "P6" -> "P6_checkIsRepo"
    [] i = "P7" -> "P7_checkIsRepo"
    [] i = "P8" -> "P8_checkIsRepo"

\* an entry that goes on to the first git call without testing the worktree
StartUnchecked ==
  /\ pc \in {"idle", "done"}
  /\ calls' = <<>>
  /\ loc' = NoLocals
  /\ startRebase' = rebaseInProgress
  /\ startMd' = MdExists
  /\ startDirty' = dirty
  /\ startRoot' = rootBranch
  /\ IF ~projectRootSet THEN Throw(Err("config"))
     ELSE pc' = Entry(impl) /\ outcome' = "none" /\ thrown' = NoErr
  /\ UNCHANGED <<cfgVars, repoVars, conflictsMd, treeVars>>

\* an entry that tests the worktree before it reads PROJECT_ROOT
StartWorktreeFirst ==
  /\ pc \in {"idle", "done"}
  /\ calls' = <<"existsSync">>
  /\ loc' = NoLocals
  /\ startRebase' = rebaseInProgress
  /\ startMd' = MdExists
  /\ startDirty' = dirty
  /\ startRoot' = rootBranch
  /\ IF ~worktreeExists THEN Throw(Err("notfound"))
     ELSE IF ~projectRootSet THEN Throw(Err("config"))
     ELSE pc' = Entry(impl) /\ outcome' = "none" /\ thrown' = NoErr
  /\ UNCHANGED <<cfgVars, repoVars, conflictsMd, treeVars>>

\* featureSync up to the first git call: PROJECT_ROOT, then the worktree
Start ==
  /\ pc \in {"idle", "done"}
  /\ calls' = IF projectRootSet THEN <<"existsSync">> ELSE <<>>
  /\ loc' = NoLocals
  /\ startRebase' = rebaseInProgress
  /\ startMd' = MdExists
  /\ startDirty' = dirty
  /\ startRoot' = rootBranch
  /\ IF ~projectRootSet THEN Throw(Err("config"))
     ELSE IF ~worktreeExists THEN Throw(Err("notfound"))
     ELSE pc' = Entry(impl) /\ outcome' = "none" /\ thrown' = NoErr
  /\ UNCHANGED <<cfgVars, repoVars, conflictsMd, treeVars>>

\* ------------------------------------------------------- steps in common
\* an awaited call that is issued a second time when it is rejected
SimpleCallRetrying(from, name, to, handler) ==
  /\ pc = from
  /\ \E ok \in BOOLEAN :
       IF ok THEN Issue(name) /\ Goto(to) /\ UNCHANGED loc
             ELSE calls' = calls \o <<name, name>> /\ Raise(Err(name), handler)
  /\ UNCHANGED <<cfgVars, repoVars, conflictsMd, treeVars, startVars>>

\* an awaited call that changes nothing the model tracks: it resolves
\* (control moves to `to`) or rejects (the error travels to `handler`)
SimpleCall(from, name, to, handler) ==
  /\ pc = from
  /\ Issue(name)
  /\ \E ok \in BOOLEAN :
       IF ok THEN Goto(to) /\ UNCHANGED loc
             ELSE Raise(Err(name), handler)
  /\ UNCHANGED <<cfgVars, repoVars, conflictsMd, treeVars, startVars>>

\* the same call where no try block encloses it: a rejection leaves featureSync
BareCall(from, name, to) ==
  /\ pc = from
  /\ Issue(name)
  /\ \E ok \in BOOLEAN :
       IF ok THEN Goto(to) /\ UNCHANGED loc
             ELSE loc' = [loc EXCEPT !.err = Err(name)] /\ Throw(Err(name))
  /\ UNCHANGED <<cfgVars, repoVars, conflictsMd, treeVars, startVars>>

\* the same call inside the inner try: a rejection is caught as rebaseError
InnerCall(from, name, to, caught) ==
  /\ pc = from
  /\ Issue(name)
  /\ \E ok \in BOOLEAN :
       IF ok THEN Goto(to) /\ UNCHANGED loc
             ELSE Caught(Err(name), caught)
  /\ UNCHANGED <<cfgVars, repoVars, conflictsMd, treeVars, startVars>>

\* git.checkIsRepo(): true, false (the draft throws notRepo), or rejected
CheckIsRepoCall(from, to, handler, notRepo) ==
  /\ pc = from
  /\ Issue("checkIsRepo")
  /\ \E r \in {"true", "false", "rejected"} :
       CASE r = "true" -> Goto(to) /\ UNCHANGED loc
         [] r = "false" -> Raise(notRepo, handler)
         [] r = "rejected" -> Raise(Err("checkIsRepo"), handler)
  /\ UNCHANGED <<cfgVars, repoVars, conflictsMd, treeVars, startVars>>

\* await mainGit.checkout('main'): the primary checkout switches to main
CheckoutMainCall(from, to, handler) ==
  /\ pc = from
  /\ Issue("checkout main")
  /\ \E ok \in BOOLEAN :
       IF ok THEN Goto(to) /\ UNCHANGED loc /\ rootBranch' = "main"
             ELSE Raise(Err("checkout main"), handler) /\ UNCHANGED rootBranch
  /\ UNCHANGED <<cfgVars, repoVars, conflictsMd, dirty, stash, startVars>>

\* a rebase step that always cleans up with rebase --abort afterwards
RebaseCallAborting(from, to, caught) ==
  /\ pc = from
  /\ calls' = calls \o <<"rebase", "abort">>
  /\ \E o \in GitRebase, m \in RebaseMsgs :
       /\ SetRepo(IF o.ok THEN o ELSE Result(FALSE, Clean))
       /\ IF o.ok THEN Goto(to) /\ UNCHANGED loc
                  ELSE Caught(RebaseError(m), caught)
  /\ UNCHANGED <<cfgVars, conflictsMd, treeVars, startVars>>

\* try { await git.rebase([onto]) ... } catch (rebaseError) { ... }
RebaseCall(from, to, caught) ==
  /\ pc = from
  /\ Issue("rebase")
  /\ \E o \in GitRebase, m \in RebaseMsgs :
       /\ SetRepo(o)
       /\ IF o.ok THEN Goto(to) /\ UNCHANGED loc
                  ELSE Caught(RebaseError(m), caught)
  /\ UNCHANGED <<cfgVars, conflictsMd, treeVars, startVars>>

\* a classification that reads the message of the rejected rebase
StatusAfterFailByMessage(from, to, handler, prefix) ==
  /\ pc = from
  /\ Issue("status")
  /\ \E ok \in BOOLEAN :
       IF ~ok
       THEN loc' = [loc EXCEPT !.failSeen = "threw", !.err = Err("status")]
            /\ Goto(handler)
       ELSE IF loc.rebaseErr.msg = <<"CONFLICT">>
            THEN loc' = [loc EXCEPT !.failSeen = IF Len(conflicted) > 0
                                                 THEN "conflicts" ELSE "empty",
                                    !.conflictedFiles = conflicted]
                 /\ Goto(to)
            ELSE loc' = [loc EXCEPT !.failSeen = IF Len(conflicted) > 0
                                                 THEN "conflicts" ELSE "empty",
                                    !.err = NewError(prefix, loc.rebaseErr)]
                 /\ Goto(handler)
  /\ UNCHANGED <<cfgVars, repoVars, conflictsMd, treeVars, startVars>>

\* const status = await git.status(); conflictedFiles = status.conflicted;
\* conflicts go to `to`; none: throw new Error(prefix + rebaseError.message)
StatusAfterFail(from, to, handler, prefix) ==
  /\ pc = from
  /\ Issue("status")
  /\ \E ok \in BOOLEAN :
       IF ~ok
       THEN loc' = [loc EXCEPT !.failSeen = "threw", !.err = Err("status")]
            /\ Goto(handler)
       ELSE IF Len(conflicted) > 0
            THEN loc' = [loc EXCEPT !.failSeen = "conflicts",
                                    !.conflictedFiles = conflicted]
                 /\ Goto(to)
            ELSE loc' = [loc EXCEPT !.failSeen = "empty",
                                    !.err = NewError(prefix, loc.rebaseErr)]
                 /\ Goto(handler)
  /\ UNCHANGED <<cfgVars, repoVars, conflictsMd, treeVars, startVars>>

\* how the awaited execa call can settle: the process exits zero, or the
\* call rejects (it did not start, exited non-zero, or was killed, which
\* is what the timeout option does to a process that is still running after
\* 300000 ms); without the option a process that never exits leaves the
\* promise pending
ExecaOutcomes(timed) ==
  IF timed THEN {"returned", "threw"} ELSE {"returned", "threw", "pending"}

\* await execa(claudeCommand, claudeArgs, {input, cwd: worktreePath, ...}):
\* whatever becomes of the process, it may have changed the worktree; while
\* the promise is pending featureSync stays at the await
ExecaCall(from, to, caught, timed) ==
  /\ pc = from
  /\ Issue("execa")
  /\ \E o \in AgentEffects, r \in ExecaOutcomes(timed) :
       /\ SetRepo(o)
       /\ loc' = [loc EXCEPT !.execResult = r,
                              !.leftAtReturn = (o.conf # <<>>)]
       /\ Goto(CASE r = "returned" -> to
                 [] r = "threw" -> caught
                 [] r = "pending" -> "awaitExeca")
  /\ UNCHANGED <<cfgVars, conflictsMd, treeVars, startVars>>

\* const finalStatus = await git.status(), the first after execa returned:
\* no conflicted path left goes to `to`, anything else to `caught`
FinalStatus(from, to, caught) ==
  /\ pc = from
  /\ Issue("status")
  /\ \E ok \in BOOLEAN :
       IF ~ok THEN loc' = [loc EXCEPT !.finalSeen = "threw"] /\ Goto(caught)
       ELSE IF Len(conflicted) = 0
            THEN loc' = [loc EXCEPT !.finalSeen = "empty"] /\ Goto(to)
            ELSE loc' = [loc EXCEPT !.finalSeen = "left"] /\ Goto(caught)
  /\ UNCHANGED <<cfgVars, repoVars, conflictsMd, treeVars, startVars>>

\* await git.rebase(['--continue']) inside the try around execa
ContinueCall(from, to, caught) ==
  /\ pc = from
  /\ Issue("continue")
  /\ \E o \in GitContinue :
       /\ SetRepo(o)
       /\ loc' = [loc EXCEPT !.continued = IF o.ok THEN "ok" ELSE "failed"]
       /\ Goto(IF o.ok THEN to ELSE caught)
  /\ UNCHANGED <<cfgVars, conflictsMd, treeVars, startVars>>

\* fs.writeFileSync(path.join(worktreePath, 'CONFLICTS.md'), text)
WriteMd(text, ok) == conflictsMd' = IF ok THEN text ELSE conflictsMd

\* try { await git.rebase(['--abort']) } catch { } ; throw error
AbortAndRethrow(from) ==
  /\ pc = from
  /\ Issue("abort")
  /\ SetRepo(GitAbort)
  /\ Throw(loc.err)
  /\ UNCHANGED <<cfgVars, conflictsMd, treeVars, loc, startVars>>

\* ------------------------------------------ M: src/tools/feature-sync.ts
\* generateConflictReport(git, conflictedFiles): the report, line by line
generateConflictReport(files) ==
  <<  <<"# ", "Conflict Resolution Required">>,
      <<"Generated: ", "timestamp">>,
      <<"## ", "Conflicted Files">> >>
  \o [i \in 1..Len(files) |-> <<"- ", files[i]>>]
  \o << <<"## ", "Resolution Steps">>,
        <<"1. ", "Open each conflicted file">>,
        <<"2. ", "Look for conflict markers">>,
        <<"3. ", "Resolve conflicts prioritizing main branch changes">>,
        <<"4. ", "Remove conflict markers">>,
        <<"5. ", "Stage resolved files">>,
        <<"6. ", "Continue rebase">>,
        <<"7. ", "Run feature_sync again to verify">>,
        <<"## ", "Strategy">>,
        <<"- ", "**Main branch wins**">>,
        <<"- ", "**Adapt feature**">>,
        <<"- ", "**Test thoroughly**">> >>

M_checkIsRepo ==
  /\ impl = "M"
  /\ CheckIsRepoCall("M_checkIsRepo", "M_fetch", "M_outerCatch", Err("notrepo"))

M_fetch ==
  /\ impl = "M"
  /\ SimpleCall("M_fetch", "fetch", "M_log", "M_outerCatch")

M_log ==
  /\ impl = "M"
  /\ SimpleCall("M_log", "log", "M_checkoutMain", "M_outerCatch")

M_checkoutMain ==
  /\ impl = "M"
  /\ CheckoutMainCall("M_checkoutMain", "M_pull", "M_outerCatch")

M_pull ==
  /\ impl = "M"
  /\ SimpleCall("M_pull", "pull", "M_checkoutBranch", "M_outerCatch")

M_checkoutBranch ==
  /\ impl = "M"
  /\ SimpleCall("M_checkoutBranch", "checkout", "M_rebase", "M_outerCatch")

M_rebase ==
  /\ impl = "M"
  /\ RebaseCall("M_rebase", "M_statusClean", "M_statusAfterFail")

\* rebase succeeded: status() for the ahead count, inside the inner try
M_statusClean ==
  /\ pc = "M_statusClean"
  /\ Issue("status")
  /\ \E ok \in BOOLEAN, a \in AheadValues, up \in StatusAhead :
       IF ok THEN /\ loc' = [loc EXCEPT !.actualAhead = a,
                                         !.reportedAhead = OrZero(up)]
                  /\ Return("clean")
             ELSE Caught(Err("status"), "M_statusAfterFail")
  /\ UNCHANGED <<cfgVars, repoVars, conflictsMd, treeVars, startVars>>

\* catch (rebaseError): status(), then conflicts or `throw new Error(...)`
M_statusAfterFail ==
  /\ impl = "M"
  /\ StatusAfterFail("M_statusAfterFail", "M_execa", "M_outerCatch", "Rebase failed: ")

\* generateConflictAnalysis, the instructions, then execa without a timeout
M_execa ==
  /\ impl = "M"
  /\ ExecaCall("M_execa", "M_finalStatus", "M_writeReport", FALSE)

M_finalStatus ==
  /\ impl = "M"
  /\ FinalStatus("M_finalStatus", "M_branchStatus", "M_writeReport")

\* const branchStatus = await git.status(); return success
M_branchStatus ==
  /\ pc = "M_branchStatus"
  /\ Issue("status")
  /\ \E ok \in BOOLEAN :
       IF ok THEN Return("resolved") ELSE Goto("M_writeReport")
  /\ UNCHANGED <<cfgVars, repoVars, conflictsMd, treeVars, loc, startVars>>

\* catch (claudeError): write CONFLICTS.md, return the manual result
M_writeReport ==
  /\ pc = "M_writeReport"
  /\ Issue("write")
  /\ \E ok \in BOOLEAN :
       /\ WriteMd(generateConflictReport(loc.conflictedFiles), ok)
       /\ IF ok THEN Return("manual") /\ UNCHANGED loc
                ELSE Raise(Err("write"), "M_outerCatch")
  /\ UNCHANGED <<cfgVars, repoVars, treeVars, startVars>>

M_outerCatch ==
  /\ impl = "M"
  /\ AbortAndRethrow("M_outerCatch")

M_Next ==
  \/ M_checkIsRepo \/ M_fetch \/ M_log \/ M_checkoutMain \/ M_pull
  \/ M_checkoutBranch \/ M_rebase \/ M_statusClean \/ M_statusAfterFail
  \/ M_execa \/ M_finalStatus \/ M_branchStatus \/ M_writeReport \/ M_outerCatch

\* ----------------------------------------------------- P6: unnamed/part_006
\* createConflictSummary(git, conflictedFiles): the summary, line by line
createConflictSummary(files) ==
  <<  <<"# ", "Conflict Resolution Summary">>,
      <<"Generated: ", "timestamp">>,
      <<"## ", "Conflicted Files">> >>
  \o Concat([i \in 1..Len(files) |->
       << <<"### ", files[i]>> >>
       \o CASE FileKind(files[i]) = "markers" ->
                 << <<"**Conflicts found:** ", "n">>, <<"code block", "content">> >>
            [] FileKind(files[i]) = "binary" -> <<>>
            [] FileKind(files[i]) = "deleted" ->
                 << <<"Error reading file: ", "ENOENT">> >>])
  \o << <<"## ", "Resolution Instructions">>,
        <<"1. ", "Open each conflicted file">>,
        <<"2. ", "Look for conflict markers">>,
        <<"3. ", "Resolve conflicts using main-first strategy">>,
        <<"4. ", "Remove conflict markers">>,
        <<"5. ", "Stage resolved files">>,
        <<"6. ", "Continue rebase">>,
        <<"7. ", "Run feature_sync again to complete the sync">> >>

P6_checkIsRepo ==
  /\ impl = "P6"
  /\ CheckIsRepoCall("P6_checkIsRepo", "P6_branchLocal", "P6_outerCatch", Err("notrepo"))

\* const branches = await mainGit.branchLocal(); the feature branch must be there
P6_branchLocal ==
  /\ pc = "P6_branchLocal"
  /\ Issue("branchLocal")
  /\ \E r \in {"listed", "absent", "rejected"} :
       CASE r = "listed" -> Goto("P6_fetch") /\ UNCHANGED loc
         [] r = "absent" -> Raise(Err("nobranch"), "P6_outerCatch")
         [] r = "rejected" -> Raise(Err("branchLocal"), "P6_outerCatch")
  /\ UNCHANGED <<cfgVars, repoVars, conflictsMd, treeVars, startVars>>

P6_fetch ==
  /\ impl = "P6"
  /\ SimpleCall("P6_fetch", "fetch", "P6_log", "P6_outerCatch")

P6_log ==
  /\ impl = "P6"
  /\ SimpleCall("P6_log", "log", "P6_checkoutMain", "P6_outerCatch")

P6_checkoutMain ==
  /\ impl = "P6"
  /\ CheckoutMainCall("P6_checkoutMain", "P6_pull", "P6_outerCatch")

P6_pull ==
  /\ impl = "P6"
  /\ SimpleCall("P6_pull", "pull", "P6_checkoutBranch", "P6_outerCatch")

P6_checkoutBranch ==
  /\ impl = "P6"
  /\ SimpleCall("P6_checkoutBranch", "checkout", "P6_rebase", "P6_outerCatch")

P6_rebase ==
  /\ impl = "P6"
  /\ RebaseCall("P6_rebase", "P6_rawClean", "P6_statusAfterFail")

\* rebase succeeded: rev-list for the ahead count, inside the inner try
P6_rawClean ==
  /\ pc = "P6_rawClean"
  /\ Issue("raw")
  /\ \E ok \in BOOLEAN, a \in AheadValues :
       IF ok THEN /\ loc' = [loc EXCEPT !.actualAhead = a,
                                         !.reportedAhead = RevListLeftRight(a)[2]]
                  /\ Return("clean")
             ELSE Caught(Err("raw"), "P6_statusAfterFail")
  /\ UNCHANGED <<cfgVars, repoVars, conflictsMd, treeVars, startVars>>

P6_statusAfterFail ==
  /\ impl = "P6"
  /\ StatusAfterFail("P6_statusAfterFail", "P6_execa", "P6_outerCatch", "Rebase failed: ")

\* execa with timeout: 300000
P6_execa ==
  /\ impl = "P6"
  /\ ExecaCall("P6_execa", "P6_finalStatus", "P6_abort", TRUE)

P6_finalStatus ==
  /\ impl = "P6"
  /\ FinalStatus("P6_finalStatus", "P6_continue", "P6_abort")

P6_continue ==
  /\ impl = "P6"
  /\ ContinueCall("P6_continue", "P6_rawResolved", "P6_abort")

\* rev-list for the ahead count, still inside the try around execa
P6_rawResolved ==
  /\ pc = "P6_rawResolved"
  /\ Issue("raw")
  /\ \E ok \in BOOLEAN :
       IF ok THEN Return("resolved") ELSE Goto("P6_abort")
  /\ UNCHANGED <<cfgVars, repoVars, conflictsMd, treeVars, loc, startVars>>

\* catch (claudeError): await featureGit.rebase(['--abort']), not guarded
P6_abort ==
  /\ pc = "P6_abort"
  /\ Issue("abort")
  /\ SetRepo(GitAbort)
  /\ IF GitAbort.ok THEN Goto("P6_writeReport") /\ UNCHANGED loc
                    ELSE Raise(Err("abort"), "P6_outerCatch")
  /\ UNCHANGED <<cfgVars, conflictsMd, treeVars, startVars>>

\* createConflictSummary, write CONFLICTS.md, return the manual result
P6_writeReport ==
  /\ pc = "P6_writeReport"
  /\ Issue("write")
  /\ \E ok \in BOOLEAN :
       /\ WriteMd(createConflictSummary(loc.conflictedFiles), ok)
       /\ IF ok THEN Return("manual") /\ UNCHANGED loc
                ELSE Raise(Err("write"), "P6_outerCatch")
  /\ UNCHANGED <<cfgVars, repoVars, treeVars, startVars>>

P6_outerCatch ==
  /\ impl = "P6"
  /\ AbortAndRethrow("P6_outerCatch")

P6_Next ==
  \/ P6_checkIsRepo \/ P6_branchLocal \/ P6_fetch \/ P6_log \/ P6_checkoutMain
  \/ P6_pull \/ P6_checkoutBranch \/ P6_rebase \/ P6_rawClean
  \/ P6_statusAfterFail \/ P6_execa \/ P6_finalStatus \/ P6_continue
  \/ P6_rawResolved \/ P6_abort \/ P6_writeReport \/ P6_outerCatch

\* ----------------------------------------------------- P8: unnamed/part_008
\* analyzeConflicts(git, conflicts): per file, git.diff inside a try
analyzeConflicts(files, ok) ==
  Concat([i \in 1..Len(files) |->
    IF ok THEN << <<"**", files[i], ":**">>,
                  <<"- ", "Merge conflict detected">>,
                  <<"- ", "Contains both main and feature branch changes">>,
                  <<"">> >>
          ELSE << <<"**", files[i], ":** Unable to analyze">> >>])

\* generateConflictSummary(git, conflicts, analysis): the summary, line by line
generateConflictSummary(files, analysis) ==
  <<  <<"# ", "Merge Conflicts - Manual Resolution Required">>,
      <<"**Generated:** ", "timestamp">>,
      <<"**Status:** ", "Rebase aborted, conflicts unresolved">>,
      <<"## ", "Files with Conflicts">> >>
  \o [i \in 1..Len(files) |-> <<"- ", files[i]>>]
  \o << <<"## ", "Conflict Analysis">> >>
  \o analysis
  \o << <<"## ", "Resolution Strategy">>,
        <<"1. ", "**Main-first approach**">>,
        <<"2. ", "**Preserve feature value**">>,
        <<"3. ", "**Code quality**">>,
        <<"4. ", "**Testing**">>,
        <<"## ", "Manual Resolution Steps">>,
        <<"1. ", "**Start the sync again:**">>,
        <<"2. ", "**For each conflicted file:**">>,
        <<"   - ", "Open the file in your editor">>,
        <<"   - ", "Look for conflict markers">>,
        <<"   - ", "Choose the appropriate resolution">>,
        <<"   - ", "Remove all conflict markers">>,
        <<"   - ", "Save the file">>,
        <<"3. ", "**Stage resolved files:**">>,
        <<"4. ", "**Continue the rebase:**">>,
        <<"5. ", "**Verify the result:**">>,
        <<"## ", "Next Steps">> >>

\* no try block encloses the body of this draft
P8_checkIsRepo ==
  /\ pc = "P8_checkIsRepo"
  /\ Issue("checkIsRepo")
  /\ \E r \in {"true", "false", "rejected"} :
       CASE r = "true" -> Goto("P8_fetch") /\ UNCHANGED loc
         [] r = "false" -> loc' = [loc EXCEPT !.err = Err("notrepo")]
                           /\ Throw(Err("notrepo"))
         [] r = "rejected" -> loc' = [loc EXCEPT !.err = Err("checkIsRepo")]
                              /\ Throw(Err("checkIsRepo"))
  /\ UNCHANGED <<cfgVars, repoVars, conflictsMd, treeVars, startVars>>

P8_fetch ==
  /\ impl = "P8"
  /\ BareCall("P8_fetch", "fetch", "P8_mainStatus")

P8_mainStatus ==
  /\ impl = "P8"
  /\ BareCall("P8_mainStatus", "root status", "P8_checkoutBranch")

P8_checkoutBranch ==
  /\ impl = "P8"
  /\ BareCall("P8_checkoutBranch", "checkout", "P8_rebase")

P8_rebase ==
  /\ impl = "P8"
  /\ RebaseCall("P8_rebase", "P8_statusClean", "P8_statusAfterFail")

P8_statusClean ==
  /\ pc = "P8_statusClean"
  /\ Issue("status")
  /\ \E ok \in BOOLEAN, a \in AheadValues, up \in StatusAhead :
       IF ok THEN /\ loc' = [loc EXCEPT !.actualAhead = a,
                                         !.reportedAhead = OrZero(up)]
                  /\ Return("clean")
             ELSE Caught(Err("status"), "P8_statusAfterFail")
  /\ UNCHANGED <<cfgVars, repoVars, conflictsMd, treeVars, startVars>>

\* catch (rebaseError): status(); no conflicts: throw new Error(...)
P8_statusAfterFail ==
  /\ pc = "P8_statusAfterFail"
  /\ Issue("status")
  /\ \E ok \in BOOLEAN :
       IF ~ok
       THEN loc' = [loc EXCEPT !.failSeen = "threw", !.err = Err("status")]
            /\ Throw(Err("status"))
       ELSE IF Len(conflicted) = 0
            THEN loc' = [loc EXCEPT !.failSeen = "empty",
                                    !.err = NewError("Feature sync failed: ", loc.rebaseErr)]
                 /\ Throw(NewError("Feature sync failed: ", loc.rebaseErr))
            ELSE loc' = [loc EXCEPT !.failSeen = "conflicts",
                                    !.conflictedFiles = conflicted]
                 /\ Goto("P8_analyze")
  /\ UNCHANGED <<cfgVars, repoVars, conflictsMd, treeVars, startVars>>

\* const conflictAnalysis = await analyzeConflicts(git, conflicts)
P8_analyze ==
  /\ pc = "P8_analyze"
  /\ Issue("diff")
  /\ \E ok \in BOOLEAN : loc' = [loc EXCEPT !.diffOk = ok]
  /\ Goto("P8_execa")
  /\ UNCHANGED <<cfgVars, repoVars, conflictsMd, treeVars, startVars>>

\* execa with timeout: 300000
P8_execa ==
  /\ impl = "P8"
  /\ ExecaCall("P8_execa", "P8_continue", "P8_writeReport", TRUE)

\* await git.rebase(['--continue']) right after execa returned
P8_continue ==
  /\ impl = "P8"
  /\ ContinueCall("P8_continue", "P8_finalStatus", "P8_writeReport")

\* const finalStatus = await git.status(), read for the ahead count only
P8_finalStatus ==
  /\ pc = "P8_finalStatus"
  /\ Issue("status")
  /\ \E ok \in BOOLEAN :
       IF ok THEN /\ loc' = [loc EXCEPT !.finalSeen =
                               IF Len(conflicted) = 0 THEN "empty" ELSE "left"]
                  /\ Return("resolved")
             ELSE /\ loc' = [loc EXCEPT !.finalSeen = "threw"]
                  /\ Goto("P8_writeReport")
  /\ UNCHANGED <<cfgVars, repoVars, conflictsMd, treeVars, startVars>>

\* catch (claudeError): write CONFLICTS.md first
P8_writeReport ==
  /\ pc = "P8_writeReport"
  /\ Issue("write")
  /\ \E ok \in BOOLEAN :
       /\ WriteMd(generateConflictSummary(loc.conflictedFiles,
                    analyzeConflicts(loc.conflictedFiles, loc.diffOk)), ok)
       /\ IF ok THEN Goto("P8_abort") /\ UNCHANGED loc
                ELSE loc' = [loc EXCEPT !.err = Err("write")] /\ Throw(Err("write"))
  /\ UNCHANGED <<cfgVars, repoVars, treeVars, startVars>>

\* then await git.rebase(['--abort']), not guarded, and the manual result
P8_abort ==
  /\ pc = "P8_abort"
  /\ Issue("abort")
  /\ SetRepo(GitAbort)
  /\ IF GitAbort.ok THEN Return("manual") /\ UNCHANGED loc
                    ELSE loc' = [loc EXCEPT !.err = Err("abort")] /\ Throw(Err("abort"))
  /\ UNCHANGED <<cfgVars, conflictsMd, treeVars, startVars>>

P8_Next ==
  \/ P8_checkIsRepo \/ P8_fetch \/ P8_mainStatus \/ P8_checkoutBranch \/ P8_rebase
  \/ P8_statusClean \/ P8_statusAfterFail \/ P8_analyze \/ P8_execa \/ P8_continue
  \/ P8_finalStatus \/ P8_writeReport \/ P8_abort

\* ----------------------------------------------------- P5: unnamed/part_005
\* generateConflictAnalysis(worktreePath, conflictedFiles) of this draft
generateConflictAnalysis_P5(files) ==
  <<  <<"# ", "Conflict Analysis for Feature Sync">>,
      <<"## ", "Overview">>,
      <<"This file contains analysis of merge conflicts encountered during feature sync.">>,
      <<"## ", "Conflicted Files">> >>
  \o [i \in 1..Len(files) |-> <<"- ", files[i]>>]
  \o << <<"## ", "Conflict Details">> >>
  \o Concat([i \in 1..Len(files) |->
       << <<"### ", files[i]>> >>
       \o CASE FileKind(files[i]) = "markers" ->
                 << <<"**Conflict ", "1", "** (lines ">>, <<"code block", "content">> >>
            [] FileKind(files[i]) = "binary" ->
                 << <<"No conflict markers found in file (may be a binary conflict or deletion conflict).">> >>
            [] FileKind(files[i]) = "deleted" ->
                 << <<"File not found (may be a deletion conflict).">> >>])
  \o << <<"## ", "Resolution Strategy">>,
        <<"**Main-first approach:**">>,
        <<"1. ", "When in doubt, prefer main branch changes (incoming)">>,
        <<"2. ", "Only keep feature changes that are clearly additive">>,
        <<"3. ", "Remove duplicate or redundant code">>,
        <<"4. ", "Ensure code quality and consistency">>,
        <<"## ", "Next Steps">>,
        <<"1. ", "Examine each conflict carefully">>,
        <<"2. ", "Apply resolution strategy consistently">>,
        <<"3. ", "Test the resolved code">>,
        <<"4. ", "Commit with git add . && git rebase --continue">> >>

\* the two-letter code `git status --porcelain` prints for a conflicted path
PorcelainCode(p) == IF FileKind(p) = "deleted" THEN "UD" ELSE "UU"

\* the fallback parse: lines that start with UU, AA or DD
RECURSIVE ParsePorcelain(_)
ParsePorcelain(paths) ==
  IF paths = <<>> THEN <<>>
  ELSE (IF PorcelainCode(Head(paths)) \in {"UU", "AA", "DD"}
        THEN <<Head(paths)>> ELSE <<>>) \o ParsePorcelain(Tail(paths))

P5_checkIsRepo ==
  /\ impl = "P5"
  /\ CheckIsRepoCall("P5_checkIsRepo", "P5_fetch", "P5_outerCatch", Err("notrepo"))

P5_fetch ==
  /\ impl = "P5"
  /\ SimpleCall("P5_fetch", "fetch", "P5_log", "P5_outerCatch")

P5_log ==
  /\ impl = "P5"
  /\ SimpleCall("P5_log", "log", "P5_checkoutBranch", "P5_outerCatch")

P5_checkoutBranch ==
  /\ impl = "P5"
  /\ SimpleCall("P5_checkoutBranch", "checkout", "P5_status", "P5_outerCatch")

\* const status = await worktreeGit.status(); status.files.length > 0 ?
P5_status ==
  /\ pc = "P5_status"
  /\ Issue("status")
  /\ \E ok \in BOOLEAN :
       IF ~ok THEN Raise(Err("status"), "P5_outerCatch")
       ELSE /\ loc' = [loc EXCEPT !.wasDirty = dirty]
            /\ Goto(IF dirty THEN "P5_stashPush" ELSE "P5_rebase")
  /\ UNCHANGED <<cfgVars, repoVars, conflictsMd, treeVars, startVars>>

\* await worktreeGit.stash(['push', '-m', 'Auto-stash before sync'])
P5_stashPush ==
  /\ pc = "P5_stashPush"
  /\ Issue("stash push")
  /\ \E ok \in BOOLEAN :
       IF ok THEN /\ dirty' = FALSE
                  /\ stash' = stash + 1
                  /\ Goto("P5_rebase")
                  /\ UNCHANGED loc
             ELSE /\ UNCHANGED <<dirty, stash>>
                  /\ Raise(Err("stash push"), "P5_outerCatch")
  /\ UNCHANGED <<cfgVars, repoVars, conflictsMd, rootBranch, startVars>>

\* try { await worktreeGit.rebase(['origin/main']) ... } catch (error) { ... }
P5_rebase ==
  /\ pc = "P5_rebase"
  /\ Issue("rebase")
  /\ \E o \in GitRebase, m \in RebaseMsgs :
       /\ SetRepo(o)
       /\ IF o.ok
          THEN Goto(IF loc.wasDirty THEN "P5_stashPop" ELSE "P5_aheadLog") /\ UNCHANGED loc
          ELSE Caught(RebaseError(m), "P5_statusAfterFail")
  /\ UNCHANGED <<cfgVars, conflictsMd, treeVars, startVars>>

\* try { await worktreeGit.stash(['pop']) } catch { warning }
P5_stashPop ==
  /\ pc = "P5_stashPop"
  /\ Issue("stash pop")
  /\ \E ok \in BOOLEAN :
       IF ok /\ stash > 0
       THEN dirty' = TRUE /\ stash' = stash - 1 /\ UNCHANGED loc
       ELSE /\ UNCHANGED <<dirty, stash>>
            /\ loc' = [loc EXCEPT !.popWarning = TRUE]
  /\ Goto("P5_aheadLog")
  /\ UNCHANGED <<cfgVars, repoVars, conflictsMd, rootBranch, startVars>>

\* const aheadLog = await worktreeGit.log(...), inside the inner try
P5_aheadLog ==
  /\ pc = "P5_aheadLog"
  /\ Issue("log")
  /\ \E ok \in BOOLEAN, a \in AheadValues :
       IF ok THEN /\ loc' = [loc EXCEPT !.actualAhead = a, !.reportedAhead = a]
                  /\ Return("clean")
             ELSE Caught(Err("log"), "P5_statusAfterFail")
  /\ UNCHANGED <<cfgVars, repoVars, conflictsMd, treeVars, startVars>>

\* what the inner catch does once the conflicted files are collected
P5_Classify(files, seen) ==
  IF Len(files) > 0
  THEN loc' = [loc EXCEPT !.failSeen = seen, !.conflictedFiles = files]
       /\ Goto("P5_writeAnalysis")
  ELSE loc' = [loc EXCEPT !.failSeen = seen, !.err = Err("unknown conflicts")]
       /\ Goto("P5_outerCatch")

\* catch (error): try { status() } catch { fall back to porcelain }
P5_statusAfterFail ==
  /\ pc = "P5_statusAfterFail"
  /\ Issue("status")
  /\ \E ok \in BOOLEAN :
       IF ok THEN P5_Classify(conflicted,
                              IF Len(conflicted) > 0 THEN "conflicts" ELSE "empty")
             ELSE Goto("P5_porcelain") /\ UNCHANGED loc
  /\ UNCHANGED <<cfgVars, repoVars, conflictsMd, treeVars, startVars>>

\* execa('git', ['status', '--porcelain']), parsed for UU / AA / DD
P5_porcelain ==
  /\ pc = "P5_porcelain"
  /\ Issue("porcelain")
  /\ \E ok \in BOOLEAN :
       P5_Classify(IF ok THEN ParsePorcelain(conflicted) ELSE <<>>, "threw")
  /\ UNCHANGED <<cfgVars, repoVars, conflictsMd, treeVars, startVars>>

\* resolveConflictsWithClaude: the analysis goes to CONFLICTS.md before execa
P5_writeAnalysis ==
  /\ pc = "P5_writeAnalysis"
  /\ Issue("write")
  /\ \E ok \in BOOLEAN :
       /\ WriteMd(generateConflictAnalysis_P5(loc.conflictedFiles), ok)
       /\ IF ok THEN Goto("P5_execa") ELSE Return("manual")
  /\ UNCHANGED <<cfgVars, repoVars, treeVars, loc, startVars>>

\* execa with timeout: 300000; a rejection is { success: false }
P5_execa ==
  /\ pc = "P5_execa"
  /\ Issue("execa")
  /\ \E o \in AgentEffects, returned \in BOOLEAN :
       /\ SetRepo(o)
       /\ loc' = [loc EXCEPT !.execResult = IF returned THEN "returned" ELSE "threw",
                              !.leftAtReturn = (o.conf # <<>>)]
       /\ IF returned THEN Goto("P5_finalStatus") ELSE Return("manual")
  /\ UNCHANGED <<cfgVars, conflictsMd, treeVars, startVars>>

\* const status = await worktreeGit.status(): success, or unlink and failure
P5_finalStatus ==
  /\ pc = "P5_finalStatus"
  /\ \E ok, unlinked \in BOOLEAN :
       IF ~ok
       THEN /\ Issue("status")
            /\ loc' = [loc EXCEPT !.finalSeen = "threw"]
            /\ Return("manual")
            /\ UNCHANGED conflictsMd
       ELSE IF Len(conflicted) = 0
       THEN /\ Issue("status")
            /\ loc' = [loc EXCEPT !.finalSeen = "empty", !.resolveSuccess = TRUE]
            /\ Goto("P5_resolvedLog")
            /\ UNCHANGED conflictsMd
       ELSE /\ calls' = calls \o <<"status", "unlink">>
            /\ loc' = [loc EXCEPT !.finalSeen = "left"]
            /\ conflictsMd' = IF unlinked THEN <<>> ELSE conflictsMd
            /\ Return("manual")
  /\ UNCHANGED <<cfgVars, repoVars, treeVars, startVars>>

\* resolveResult.success: worktreeGit.log for the ahead count, then return
P5_resolvedLog ==
  /\ impl = "P5"
  /\ pc = "P5_resolvedLog"
  /\ Issue("log")
  /\ \E ok \in BOOLEAN :
       IF ok THEN Return("resolved") /\ UNCHANGED loc
             ELSE Raise(Err("log"), "P5_outerCatch")
  /\ UNCHANGED <<cfgVars, repoVars, conflictsMd, treeVars, startVars>>

P5_outerCatch ==
  /\ impl = "P5"
  /\ AbortAndRethrow("P5_outerCatch")

P5_Next ==
  \/ P5_checkIsRepo \/ P5_fetch \/ P5_log \/ P5_checkoutBranch \/ P5_status
  \/ P5_stashPush \/ P5_rebase \/ P5_stashPop \/ P5_aheadLog
  \/ P5_statusAfterFail \/ P5_porcelain \/ P5_writeAnalysis \/ P5_execa
  \/ P5_finalStatus \/ P5_resolvedLog \/ P5_outerCatch

\* ----------------------------------------------------- P7: unnamed/part_007
\* isRebaseInProgress(repositoryPath)
isRebaseInProgress == rebaseInProgress

\* generateConflictAnalysis(worktreePath, conflictedFiles) of this draft:
\* a file that does not exist gets no entry
generateConflictAnalysis_P7(files, diffStat) ==
  Concat([i \in 1..Len(files) |->
    IF FileKind(files[i]) = "deleted" THEN <<>>
    ELSE << <<"## ", files[i]>>,
            <<"- ", "File has merge conflicts">>,
            <<"- Sections to resolve: ", "n">> >>
         \o (IF diffStat THEN << <<"- Changes: ", "stat">> >> ELSE <<>>)])

\* `# Conflict Resolution Context\n\n${conflictAnalysis}`
ContextFile(analysis) == << <<"# ", "Conflict Resolution Context">> >> \o analysis

\* `# Manual Conflict Resolution Guide\n\n${conflictDetails}\n\n## Resolution Steps...`
GuideFile(analysis) ==
  << <<"# ", "Manual Conflict Resolution Guide">> >>
  \o analysis
  \o << <<"## ", "Resolution Steps">>,
        <<"1. ", "Examine each conflicted file">>,
        <<"2. ", "Resolve conflicts (prioritize main branch changes)">>,
        <<"3. ", "Stage files: git add <files>">>,
        <<"4. ", "Continue: git rebase --continue">> >>

P7_checkIsRepo ==
  /\ impl = "P7"
  /\ CheckIsRepoCall("P7_checkIsRepo", "P7_status", "P7_outerCatch", Err("notrepo"))

P7_status ==
  /\ impl = "P7"
  /\ SimpleCall("P7_status", "status", "P7_fetch", "P7_outerCatch")

P7_fetch ==
  /\ impl = "P7"
  /\ SimpleCall("P7_fetch", "fetch", "P7_mainLog", "P7_outerCatch")

P7_mainLog ==
  /\ impl = "P7"
  /\ SimpleCall("P7_mainLog", "log", "P7_featureLog", "P7_outerCatch")

P7_featureLog ==
  /\ impl = "P7"
  /\ SimpleCall("P7_featureLog", "log", "P7_checkoutBranch", "P7_outerCatch")

\* the checkout is the first statement of the inner try
P7_checkoutBranch ==
  /\ impl = "P7"
  /\ InnerCall("P7_checkoutBranch", "checkout", "P7_rebase", "P7_statusAfterFail")

P7_rebase ==
  /\ impl = "P7"
  /\ RebaseCall("P7_rebase", "P7_updatedLog", "P7_statusAfterFail")

P7_updatedLog ==
  /\ impl = "P7"
  /\ InnerCall("P7_updatedLog", "log", "P7_rawClean", "P7_statusAfterFail")

P7_rawClean ==
  /\ pc = "P7_rawClean"
  /\ Issue("raw")
  /\ \E ok \in BOOLEAN, a \in AheadValues :
       IF ok THEN /\ loc' = [loc EXCEPT !.actualAhead = a, !.reportedAhead = a]
                  /\ Return("clean")
             ELSE Caught(Err("raw"), "P7_statusAfterFail")
  /\ UNCHANGED <<cfgVars, repoVars, conflictsMd, treeVars, startVars>>

P7_statusAfterFail ==
  /\ impl = "P7"
  /\ StatusAfterFail("P7_statusAfterFail", "P7_analysis", "P7_outerCatch", "Rebase failed: ")

\* resolveConflictsWithClaude: generateConflictAnalysis, before the try
P7_analysis ==
  /\ pc = "P7_analysis"
  /\ Issue("diff")
  /\ \E ok \in BOOLEAN : loc' = [loc EXCEPT !.diffOk = ok]
  /\ Goto("P7_writeContext")
  /\ UNCHANGED <<cfgVars, repoVars, conflictsMd, treeVars, startVars>>

\* try { fs.writeFileSync(conflictsFilePath, context) ...
P7_writeContext ==
  /\ pc = "P7_writeContext"
  /\ Issue("write")
  /\ \E ok \in BOOLEAN :
       /\ WriteMd(ContextFile(generateConflictAnalysis_P7(loc.conflictedFiles, loc.diffOk)), ok)
       /\ Goto(IF ok THEN "P7_execa" ELSE "P7_catchAnalysis")
  /\ UNCHANGED <<cfgVars, repoVars, treeVars, loc, startVars>>

\* execa with timeout: 300000
P7_execa ==
  /\ impl = "P7"
  /\ ExecaCall("P7_execa", "P7_finalStatus", "P7_catchAnalysis", TRUE)

\* const finalStatus = await git.status();
\* !isRebaseInProgress(worktreePath) && finalStatus.conflicted.length === 0 ?
P7_finalStatus ==
  /\ pc = "P7_finalStatus"
  /\ Issue("status")
  /\ \E ok \in BOOLEAN :
       IF ~ok
       THEN loc' = [loc EXCEPT !.finalSeen = "threw"] /\ Goto("P7_catchAnalysis")
       ELSE /\ loc' = [loc EXCEPT !.finalSeen =
                         IF Len(conflicted) = 0 THEN "empty" ELSE "left"]
            /\ IF ~isRebaseInProgress /\ Len(conflicted) = 0
               THEN Goto("P7_rawResolved")
               ELSE Return("manual")
  /\ UNCHANGED <<cfgVars, repoVars, conflictsMd, treeVars, startVars>>

\* rev-list for the ahead count, then CONFLICTS.md is unlinked if it exists
P7_rawResolved ==
  /\ pc = "P7_rawResolved"
  /\ \E ok, unlinked \in BOOLEAN :
       IF ~ok
       THEN Issue("raw") /\ Goto("P7_catchAnalysis") /\ UNCHANGED conflictsMd
       ELSE IF ~MdExists
       THEN Issue("raw") /\ Return("resolved") /\ UNCHANGED conflictsMd
       ELSE /\ calls' = calls \o <<"raw", "unlink">>
            /\ IF unlinked THEN conflictsMd' = <<>> /\ Return("resolved")
                           ELSE UNCHANGED conflictsMd /\ Goto("P7_catchAnalysis")
  /\ UNCHANGED <<cfgVars, repoVars, treeVars, loc, startVars>>

\* catch (claudeError): generateConflictAnalysis once more
P7_catchAnalysis ==
  /\ pc = "P7_catchAnalysis"
  /\ Issue("diff")
  /\ \E ok \in BOOLEAN : loc' = [loc EXCEPT !.diffOk = ok]
  /\ Goto("P7_writeGuide")
  /\ UNCHANGED <<cfgVars, repoVars, conflictsMd, treeVars, startVars>>

\* the guide goes to CONFLICTS.md and the manual result is returned
P7_writeGuide ==
  /\ pc = "P7_writeGuide"
  /\ Issue("write")
  /\ \E ok \in BOOLEAN :
       /\ WriteMd(GuideFile(generateConflictAnalysis_P7(loc.conflictedFiles, loc.diffOk)), ok)
       /\ IF ok THEN Return("manual") /\ UNCHANGED loc
                ELSE Raise(Err("write"), "P7_outerCatch")
  /\ UNCHANGED <<cfgVars, repoVars, treeVars, startVars>>

\* catch (error): abort only if isRebaseInProgress(worktreePath); throw error
P7_outerCatch ==
  /\ pc = "P7_outerCatch"
  /\ IF isRebaseInProgress
     THEN Issue("abort") /\ SetRepo(GitAbort)
     ELSE UNCHANGED <<calls, repoVars>>
  /\ Throw(loc.err)
  /\ UNCHANGED <<cfgVars, conflictsMd, treeVars, loc, startVars>>

P7_Next ==
  \/ P7_checkIsRepo \/ P7_status \/ P7_fetch \/ P7_mainLog \/ P7_featureLog
  \/ P7_checkoutBranch \/ P7_rebase \/ P7_updatedLog \/ P7_rawClean
  \/ P7_statusAfterFail \/ P7_analysis \/ P7_writeContext \/ P7_execa
  \/ P7_finalStatus \/ P7_rawResolved \/ P7_catchAnalysis \/ P7_writeGuide
  \/ P7_outerCatch

\* ------------------------------------------- the launch of the process
\* the same two statements and the same execa arguments in the five drafts
\* characters a CLAUDE_ARGS value is made of
ArgChars == {"-", "p", " "}

ArgStrings == UNION {[1..n -> ArgChars] : n \in 0..MaxArgsLen}

\* values of CLAUDE_COMMAND: the empty string or one name
CommandStrings == {<<>>, <<"custom-claude">>}

\* an environment variable: not set, or set to one of the strings
UnsetEnv == [set |-> FALSE, val |-> <<>>]
EnvValues(strings) == {UnsetEnv} \cup {[set |-> TRUE, val |-> v] : v \in strings}

\* the left operand of || and of ?: undefined and '' are falsy
Truthy(e) == e.set /\ e.val # <<>>

\* a split that treats a run of spaces as one separator
RECURSIVE SplitOnRuns(_)
SplitOnRuns(str) ==
  IF str = <<>> THEN << <<>> >>
  ELSE IF Head(str) = " "
  THEN (IF Tail(str) # <<>> /\ Head(Tail(str)) = " "
        THEN SplitOnRuns(Tail(str))
        ELSE << <<>> >> \o SplitOnRuns(Tail(str)))
  ELSE LET rest == SplitOnRuns(Tail(str))
       IN  << <<Head(str)>> \o Head(rest) >> \o Tail(rest)

\* String.prototype.split(' '): a field ends at every single space
RECURSIVE Split(_)
Split(str) ==
  IF str = <<>> THEN << <<>> >>
  ELSE IF Head(str) = " "
  THEN << <<>> >> \o Split(Tail(str))
  ELSE LET rest == Split(Tail(str))
       IN  << <<Head(str)>> \o Head(rest) >> \o Tail(rest)

\* process.env.CLAUDE_COMMAND || 'claude'
ClaudeCommand(e) == IF Truthy(e) THEN e.val ELSE <<"claude">>

\* process.env.CLAUDE_ARGS ? process.env.CLAUDE_ARGS.split(' ')
\*                         : ['--dangerously-skip-permissions']
ClaudeArgs(e) ==
  IF Truthy(e) THEN Split(e.val) ELSE << <<"--dangerously-skip-permissions">> >>

NoLaunch == [command |-> <<>>, args |-> <<>>, input |-> "", cwd |-> ""]

\* execa(claudeCommand, claudeArgs, {input: instructions, stdio, cwd: worktreePath})
Launch ==
  /\ launched = NoLaunch
  /\ launched' = [command |-> ClaudeCommand(envCommand),
                  args |-> ClaudeArgs(envArgs),
                  input |-> "instructions",
                  cwd |-> "worktreePath"]
  /\ UNCHANGED <<impl, projectRootSet, worktreeExists, upToDate, pc, repoVars,
                 conflictsMd, treeVars, loc, calls, obsVars, startVars,
                 envCommand, envArgs, cleanupVars, toolVars>>

\* ------------------------------- featureCleanup: tools/feature-revision.ts
\* the features there can be, in the order readdirSync lists them
AllFeatures == <<"alpha", "beta">>
Features == Range(AllFeatures)

\* the state of a feature's pull request; "NONE": it has none
PrStates == {"MERGED", "CLOSED", "OPEN", "NONE"}

\* fs.readdirSync(worktreesPath).filter(isDirectory)
RECURSIVE Listing(_, _)
Listing(names, dirs) ==
  IF names = <<>> THEN <<>>
  ELSE (IF Head(names) \in dirs THEN <<Head(names)>> ELSE <<>>)
       \o Listing(Tail(names), dirs)

\* execa('gh', ['pr', 'view', '--json', 'state', '-q', '.state'], {cwd}):
\* the state of the pull request, or a rejection (the branch has no pull
\* request, gh is missing or not authenticated, the network is down)
GhPrView(f) ==
  IF prState[f] = "NONE" THEN {"threw"} ELSE {prState[f], "threw"}

\* featureCleanup up to the loop: PROJECT_ROOT, the .worktrees directory,
\* the targets
CleanupStart ==
  /\ cleanupPc = "idle"
  /\ cleanedCount' = 0
  /\ skippedCount' = 0
  /\ IF ~projectRootSet
     THEN cleanupPc' = "thrown" /\ UNCHANGED targetWorktrees
     ELSE IF worktrees = {}
     THEN cleanupPc' = "done" /\ UNCHANGED targetWorktrees
     ELSE IF featureName # "" /\ featureName \notin worktrees
     THEN cleanupPc' = "thrown" /\ UNCHANGED targetWorktrees
     ELSE /\ targetWorktrees' = IF featureName # "" THEN <<featureName>>
                                ELSE Listing(AllFeatures, worktrees)
          /\ cleanupPc' = "loop"
  /\ UNCHANGED <<impl, projectRootSet, worktreeExists, upToDate, launchVars,
                 pc, repoVars, conflictsMd, treeVars, loc, calls, obsVars, startVars,
                 featureName, force, all, worktrees, branches, prState, toolVars>>

\* one round of `for (const worktreeName of targetWorktrees)`: the pull
\* request check unless force or all, then the removal of the worktree and
\* of the branch; a rejected removal of the worktree is counted as skipped,
\* a rejected removal of the branch is ignored
CleanupFeature ==
  /\ cleanupPc = "loop"
  /\ LET f == Head(targetWorktrees)
     IN \E gh \in (IF force \/ all THEN {"unchecked"} ELSE GhPrView(f)),
           removed, branchRemoved \in BOOLEAN :
          LET shouldClean == force \/ all \/ gh \in {"MERGED", "CLOSED", "threw"}
          IN  /\ worktrees' = IF shouldClean /\ removed
                              THEN worktrees \ {f} ELSE worktrees
              /\ branches' = IF shouldClean /\ removed /\ branchRemoved
                             THEN branches \ {f} ELSE branches
              /\ cleanedCount' = IF shouldClean /\ removed
                                 THEN cleanedCount + 1 ELSE cleanedCount
              /\ skippedCount' = IF (shouldClean /\ ~removed) \/ gh = "OPEN"
                                 THEN skippedCount + 1 ELSE skippedCount
  /\ targetWorktrees' = Tail(targetWorktrees)
  /\ cleanupPc' = IF Tail(targetWorktrees) = <<>> THEN "done" ELSE "loop"
  /\ UNCHANGED <<impl, projectRootSet, worktreeExists, upToDate, launchVars,
                 pc, repoVars, conflictsMd, treeVars, loc, calls, obsVars, startVars,
                 featureName, force, all, prState, toolVars>>

\* ------------- featureRevision and featureStart: the process working directory
\* the directory the server runs in: the project root
Root == <<"home", "dev", "project">>

\* path.resolve of the relative worktreePath '.worktrees/<featureName>'
WorktreeDir(f) == Root \o <<".worktrees", f>>

\* process.chdir('../..') from the directory d
UpTwo(d) == SubSeq(d, 1, IF Len(d) >= 2 THEN Len(d) - 2 ELSE 0)

\* fs.existsSync('.worktrees/<featureName>'): the path is relative to the
\* working directory of the process
ExistsRel(f) == cwd = Root /\ f \in worktrees

\* no tool call has been made
NoCall == [tool |-> "none", draft |-> "none", featureName |-> "", force |-> FALSE,
           cwd |-> <<>>, worktrees |-> {}, branches |-> {}]

\* a tool is called: its arguments, and what it finds
Call(tool, draft, f, frc) ==
  running' = [tool |-> tool, draft |-> draft, featureName |-> f, force |-> frc,
              cwd |-> cwd, worktrees |-> worktrees, branches |-> branches]

ToolGoto(to) == toolPc' = to /\ toolResult' = "none"
ToolReturn == toolPc' = "done" /\ toolResult' = "returned"
ToolThrow == toolPc' = "done" /\ toolResult' = "thrown"

\* what no step of featureRevision or featureStart touches
toolFrame == <<impl, projectRootSet, worktreeExists, upToDate, pc, repoVars,
               conflictsMd, treeVars, loc, calls, obsVars, startVars, launchVars,
               featureName, force, all, prState, targetWorktrees, cleanupPc,
               cleanedCount, skippedCount>>

\* featureRevision up to its first await: the feature file, the worktree
featureRevision ==
  /\ toolPc \in {"idle", "done"}
  /\ \E f \in Features, frc, fileExists \in BOOLEAN :
       /\ Call("featureRevision", "M", f, frc)
       /\ IF ~fileExists \/ ~ExistsRel(f) THEN ToolThrow
          ELSE ToolGoto(IF frc THEN "Rev_prInfo" ELSE "Rev_pgrep")
  /\ UNCHANGED <<toolFrame, cwd, worktrees, branches>>

\* await execa('pgrep', ...): a process found is an error, a rejection is not
Rev_pgrep ==
  /\ toolPc = "Rev_pgrep"
  /\ \E found \in BOOLEAN : IF found THEN ToolThrow ELSE ToolGoto("Rev_prInfo")
  /\ UNCHANGED <<toolFrame, cwd, worktrees, branches, running>>

\* try { process.chdir(worktreePath); ... at lines 56-57 and 202-203: a
\* rejected chdir goes through catch {} to finally { process.chdir('../..') }
Rev_enterWorktree ==
  /\ toolPc \in {"Rev_prInfo", "Rev_diff"}
  /\ \E ok \in (IF ExistsRel(running.featureName) THEN BOOLEAN ELSE {FALSE}) :
       IF ok
       THEN /\ cwd' = WorktreeDir(running.featureName)
            /\ ToolGoto(IF toolPc = "Rev_prInfo" THEN "Rev_gh" ELSE "Rev_gitDiff")
       ELSE /\ cwd' = UpTwo(cwd)
            /\ ToolGoto(IF toolPc = "Rev_prInfo" THEN "Rev_gitInfo" ELSE "Rev_launch")
  /\ UNCHANGED <<toolFrame, worktrees, branches, running>>

\* the awaited gh or git subprocess settles, either way; then
\* finally { process.chdir('../..') } at lines 153-155 and 208-210
Rev_leaveWorktree ==
  /\ toolPc \in {"Rev_gh", "Rev_gitDiff"}
  /\ cwd' = UpTwo(cwd)
  /\ ToolGoto(IF toolPc = "Rev_gh" THEN "Rev_gitInfo" ELSE "Rev_launch")
  /\ UNCHANGED <<toolFrame, worktrees, branches, running>>

\* simpleGit(worktreePath), status(), log(), the reads of the two
\* specifications: any rejection leaves through the outer catch
Rev_gitInfo ==
  /\ toolPc = "Rev_gitInfo"
  /\ \E ok \in (IF ExistsRel(running.featureName) THEN BOOLEAN ELSE {FALSE}) :
       IF ok THEN ToolGoto("Rev_diff") ELSE ToolThrow
  /\ UNCHANGED <<toolFrame, cwd, worktrees, branches, running>>

\* REVISION.md is written, then process.chdir(worktreePath), execa (not
\* awaited) and process.chdir('../..') at lines 317-344, and the return
Rev_launch ==
  /\ toolPc = "Rev_launch"
  /\ \E ok \in (IF ExistsRel(running.featureName) THEN BOOLEAN ELSE {FALSE}) :
       IF ok THEN cwd' = UpTwo(WorktreeDir(running.featureName)) /\ ToolReturn
             ELSE cwd' = cwd /\ ToolThrow
  /\ UNCHANGED <<toolFrame, worktrees, branches, running>>

\* ---------------------------- featureStart: unnamed/part_002, unnamed/part_003
\* part_002 ("P2") builds absolute paths from PROJECT_ROOT and passes cwd to
\* its subprocesses; part_003 ("P3") uses relative paths and process.chdir
StartDrafts == {"P2", "P3"}

\* fs.existsSync(worktreePath) as the draft under way computes the path
WorktreeThere ==
  IF running.draft = "P2" THEN running.featureName \in worktrees
  ELSE ExistsRel(running.featureName)

\* featureStart up to its first await: PROJECT_ROOT (part_002), the feature
\* file, and no worktree of that name yet
featureStart ==
  /\ toolPc \in {"idle", "done"}
  /\ \E d \in StartDrafts, f \in Features, fileExists \in BOOLEAN :
       /\ Call("featureStart", d, f, FALSE)
       /\ IF \/ d = "P2" /\ ~projectRootSet
             \/ ~fileExists
             \/ IF d = "P2" THEN f \in worktrees ELSE ExistsRel(f)
          THEN ToolThrow
          ELSE ToolGoto("FS_checkIsRepo")
  /\ UNCHANGED <<toolFrame, cwd, worktrees, branches>>

\* await git.checkIsRepo(), then fs.mkdirSync of .worktrees; outside a
\* repository the catch finds no worktree path and its
\* git.deleteLocalBranch is rejected as well: the error is thrown on
FS_checkIsRepo ==
  /\ toolPc = "FS_checkIsRepo"
  /\ \E ok \in BOOLEAN : IF ok THEN ToolGoto("FS_checkoutBranch") ELSE ToolThrow
  /\ UNCHANGED <<toolFrame, cwd, worktrees, branches, running>>

\* await git.checkout(['-b', branchName, baseBranch]): git rejects it when
\* the branch exists already
FS_checkoutBranch ==
  /\ toolPc = "FS_checkoutBranch"
  /\ \E ok \in (IF running.featureName \in branches THEN {FALSE} ELSE BOOLEAN) :
       IF ok THEN branches' = branches \cup {running.featureName}
                  /\ ToolGoto("FS_worktreeAdd")
             ELSE UNCHANGED branches /\ ToolGoto("FS_catch")
  /\ UNCHANGED <<toolFrame, cwd, worktrees, running>>

\* await git.raw(['worktree', 'add', worktreePath, branchName])
FS_worktreeAdd ==
  /\ toolPc = "FS_worktreeAdd"
  /\ \E ok \in BOOLEAN :
       IF ok THEN worktrees' = worktrees \cup {running.featureName}
                  /\ ToolGoto("FS_copy")
             ELSE UNCHANGED worktrees /\ ToolGoto("FS_catch")
  /\ UNCHANGED <<toolFrame, cwd, branches, running>>

\* FEATURE.md and the project files are copied into the worktree; part_003
\* then does process.chdir(worktreePath) before it installs the dependencies
FS_copy ==
  /\ toolPc = "FS_copy"
  /\ \E ok \in (IF WorktreeThere THEN BOOLEAN ELSE {FALSE}) :
       IF ok THEN /\ cwd' = IF running.draft = "P3"
                            THEN WorktreeDir(running.featureName) ELSE cwd
                  /\ ToolGoto("FS_install")
             ELSE UNCHANGED cwd /\ ToolGoto("FS_catch")
  /\ UNCHANGED <<toolFrame, worktrees, branches, running>>

\* the awaited pnpm or npm install settles (a rejection is a warning), execa
\* launches the process without await; part_003 then does
\* process.chdir('../..'); the return
FS_install ==
  /\ toolPc = "FS_install"
  /\ cwd' = IF running.draft = "P3" THEN UpTwo(cwd) ELSE cwd
  /\ ToolReturn
  /\ UNCHANGED <<toolFrame, worktrees, branches, running>>

\* catch (error): if the worktree path exists (part_003: process.chdir('../..')
\* first) git worktree remove --force; then git.deleteLocalBranch(branchName,
\* true); a rejection of either ends the cleanup; throw error
FS_catch ==
  /\ toolPc = "FS_catch"
  /\ \E removed, deleted \in BOOLEAN :
       LET f == running.featureName
           there == WorktreeThere
           gone == ~there \/ removed
       IN  /\ cwd' = IF running.draft = "P3" /\ there THEN UpTwo(cwd) ELSE cwd
           /\ worktrees' = IF there /\ removed THEN worktrees \ {f} ELSE worktrees
           /\ branches' = IF gone /\ deleted THEN branches \ {f} ELSE branches
  /\ ToolThrow
  /\ UNCHANGED <<toolFrame, running>>

\* ------------------------------------------------------- specification
\* the worktree, the primary checkout and the attempt before the first call
AttemptInit ==
  /\ impl \in Impls
  /\ projectRootSet \in BOOLEAN
  /\ worktreeExists \in BOOLEAN
  /\ upToDate \in BOOLEAN
  /\ pc = "idle"
  /\ rebaseInProgress = FALSE
  /\ conflicted = <<>>
  /\ conflictsMd = <<>>
  /\ dirty \in BOOLEAN
  /\ stash = 0
  /\ rootBranch \in {"main", "dev"}
  /\ loc = NoLocals
  /\ calls = <<>>
  /\ outcome = "none"
  /\ thrown = NoErr
  /\ startRebase = FALSE
  /\ startMd = FALSE
  /\ startDirty = dirty
  /\ startRoot = rootBranch

\* no tool call has been made; the process is in the project root
NoTool ==
  /\ cwd = Root
  /\ running = NoCall
  /\ toolPc = "idle"
  /\ toolResult = "none"

\* no cleanup is under way and there is nothing to clean
NoCleanup ==
  /\ featureName = ""
  /\ force = FALSE
  /\ all = FALSE
  /\ worktrees = {}
  /\ branches = {}
  /\ prState = [f \in Features |-> "NONE"]
  /\ targetWorktrees = <<>>
  /\ cleanupPc = "idle"
  /\ cleanedCount = 0
  /\ skippedCount = 0

\* the attempts are explored with the environment's defaults for the launch
Init ==
  /\ AttemptInit
  /\ envCommand = UnsetEnv
  /\ envArgs = UnsetEnv
  /\ launched = NoLaunch
  /\ NoCleanup
  /\ NoTool

\* the launch alone, for every value of CLAUDE_COMMAND and CLAUDE_ARGS
LaunchInit ==
  /\ AttemptInit
  /\ envCommand \in EnvValues(CommandStrings)
  /\ envArgs \in EnvValues(ArgStrings)
  /\ launched = NoLaunch
  /\ NoCleanup
  /\ NoTool

LaunchNext == Launch

LaunchSpec == LaunchInit /\ [][LaunchNext]_vars

\* featureCleanup alone: any arguments, any worktrees (each with its branch,
\* as feature_start leaves them) and any pull request states; no sync
\* attempt runs
CleanupInit ==
  /\ impl = "M"
  /\ projectRootSet \in BOOLEAN
  /\ worktreeExists = TRUE
  /\ upToDate = TRUE
  /\ pc = "idle"
  /\ rebaseInProgress = FALSE
  /\ conflicted = <<>>
  /\ conflictsMd = <<>>
  /\ dirty = FALSE
  /\ stash = 0
  /\ rootBranch = "main"
  /\ loc = NoLocals
  /\ calls = <<>>
  /\ outcome = "none"
  /\ thrown = NoErr
  /\ startRebase = FALSE
  /\ startMd = FALSE
  /\ startDirty = FALSE
  /\ startRoot = rootBranch
  /\ envCommand = UnsetEnv
  /\ envArgs = UnsetEnv
  /\ launched = NoLaunch
  /\ featureName \in {""} \cup Features
  /\ force \in BOOLEAN
  /\ all \in BOOLEAN
  /\ worktrees \in SUBSET Features
  /\ branches = worktrees
  /\ prState \in [Features -> PrStates]
  /\ targetWorktrees = <<>>
  /\ cleanupPc = "idle"
  /\ cleanedCount = 0
  /\ skippedCount = 0
  /\ NoTool

\* the tools that work in the working directory of the process, called one
\* after the other, with any worktrees and branches in place
ToolInit ==
  /\ AttemptInit
  /\ impl = "M" /\ worktreeExists /\ upToDate /\ ~dirty /\ rootBranch = "main"
  /\ envCommand = UnsetEnv
  /\ envArgs = UnsetEnv
  /\ launched = NoLaunch
  /\ featureName = ""
  /\ force = FALSE
  /\ all = FALSE
  /\ worktrees \in SUBSET Features
  /\ branches \in {b \in SUBSET Features : worktrees \subseteq b}
  /\ prState = [f \in Features |-> "NONE"]
  /\ targetWorktrees = <<>>
  /\ cleanupPc = "idle"
  /\ cleanedCount = 0
  /\ skippedCount = 0
  /\ NoTool

ToolNext ==
  \/ featureRevision \/ Rev_pgrep \/ Rev_enterWorktree \/ Rev_leaveWorktree
  \/ Rev_gitInfo \/ Rev_launch
  \/ featureStart \/ FS_checkIsRepo \/ FS_checkoutBranch \/ FS_worktreeAdd
  \/ FS_copy \/ FS_install \/ FS_catch

ToolSpec == ToolInit /\ [][ToolNext]_vars

CleanupNext == CleanupStart \/ CleanupFeature

CleanupSpec == CleanupInit /\ [][CleanupNext]_vars

Next == Start \/ M_Next \/ P5_Next \/ P6_Next \/ P7_Next \/ P8_Next

Spec == Init /\ [][Next]_vars

\* the event loop runs the continuation of every await whose promise has
\* settled, and a caller that wants another attempt makes it
FairSpec == Spec /\ WF_vars(Next)

\* ------------------------------------------------------------- properties
\* featureSync has returned or thrown
Done == pc = "done"

\* how many times the attempt issued the call c
Count(c) == Cardinality({i \in 1..Len(calls) : calls[i] = c})

\* the paths a CONFLICTS.md text names
ListedPaths(md) == {p \in Paths : \E i \in 1..Len(md) : p \in Range(md[i])}

\* the rebase was rejected and the status() right after it listed conflicts
ConflictedRebase == loc.rebaseErr.kind = "rebase" /\ loc.failSeen = "conflicts"

\* the rebase was rejected and the status() right after it listed none
NonConflictFailure == loc.rebaseErr.kind = "rebase" /\ loc.failSeen = "empty"

\* the external process rejected (did not start, crashed, timed out), or
\* returned while conflicted paths remained
DelegateFailed ==
  \/ loc.execResult = "threw"
  \/ loc.execResult = "returned" /\ loc.leftAtReturn

\* C1: after featureSync returns or throws, on every path, the feature
\* worktree has no rebase in progress.
C1_NoRebaseLeft == Done => ~rebaseInProgress

\* C2: when the rebase fails with conflicts and the delegate then fails,
\* featureSync has issued rebase --abort by the time it returns the
\* manual-intervention result.
C2_AbortBeforeManual ==
  (Done /\ outcome = "manual" /\ ConflictedRebase /\ DelegateFailed)
    => Count("abort") > 0

\* C3: when the rebase fails with conflicts and the delegate then fails,
\* CONFLICTS.md exists when featureSync returns and lists exactly the paths
\* status() reported right after the failed rebase.
C3_ReportListsConflicts ==
  (Done /\ outcome = "manual" /\ ConflictedRebase /\ DelegateFailed)
    => MdExists /\ ListedPaths(conflictsMd) = Range(loc.conflictedFiles)

\* C4: when the delegate resolved the conflicts and featureSync reports
\* success, featureSync itself issued rebase --continue exactly once, after
\* the external process returned.
C4_ContinueOnce ==
  (Done /\ outcome = "resolved")
    => /\ Count("continue") = 1
       /\ \E i, j \in 1..Len(calls) :
            i < j /\ calls[i] = "execa" /\ calls[j] = "continue"

\* C5: success after conflict resolution only if a status() made after the
\* external process returned showed no conflicted path; a normal return of
\* the process with conflicted paths left yields the manual outcome.
C5_StatusDecides ==
  Done => /\ outcome = "resolved" => loc.finalSeen = "empty"
          /\ (loc.execResult = "returned" /\ loc.leftAtReturn) => outcome = "manual"

\* C6: if rebase --continue fails after the delegate reported resolved,
\* featureSync ends in the manual outcome: the rebase aborted, CONFLICTS.md
\* written, a normal result returned.
C6_ContinueFailureIsManual ==
  (Done /\ loc.continued = "failed")
    => /\ outcome = "manual"
       /\ ~rebaseInProgress
       /\ Count("write") > 0 /\ MdExists

\* C7: when the rebase raises an error and status() then shows no conflicted
\* path, the external process is never invoked and rebase --abort is issued
\* before the error reaches the caller.
C7_NoDelegateAndAbort ==
  (Done /\ NonConflictFailure)
    => /\ outcome = "thrown"
       /\ Count("execa") = 0
       /\ Count("abort") > 0

\* C8: when the rebase raises an error and the conflicted set is empty, the
\* error featureSync throws is the rebase error itself, with its message.
C8_OriginalError ==
  (Done /\ NonConflictFailure /\ outcome = "thrown") => thrown = loc.rebaseErr

\* C9: for every rebase that fails with conflicts, featureSync returns a
\* normal result and never throws.
C9_ConflictsNeverThrow == (Done /\ ConflictedRebase) => outcome # "thrown"

\* C10: when the delegate resolved a conflicted rebase and the sync
\* succeeds, no CONFLICTS.md is left in the worktree when featureSync returns.
C10_StaleReportDeleted == (Done /\ outcome = "resolved") => ~MdExists

\* C11: after an attempt that ends in clean success (a rebase without
\* conflicts) no CONFLICTS.md remains in the worktree, whatever earlier
\* attempts left there.
C11_CleanSuccessLeavesNoReport == (Done /\ outcome = "clean") => ~MdExists

\* C12: CONFLICTS.md is written only on the manual-intervention outcome: an
\* attempt that found no CONFLICTS.md and ends in clean success, in success
\* after resolution or in a thrown error leaves none behind.
C12_ReportOnlyOnManual ==
  (Done /\ ~startMd /\ outcome \in {"clean", "resolved", "thrown"}) => ~MdExists

\* the attempt issued nothing but its precondition checks
NoForeignCalls ==
  \A i \in 1..Len(calls) : calls[i] \in {"existsSync", "checkIsRepo"}

\* C13: invoked on a worktree that already has a rebase in progress,
\* featureSync fails fast with a distinct in-progress error before fetching
\* or mutating the repository, and neither continues nor aborts that rebase.
C13_InProgressFailsFast ==
  (Done /\ projectRootSet /\ worktreeExists /\ startRebase)
    => /\ outcome = "thrown" /\ thrown.kind = "inprogress"
       /\ NoForeignCalls
       /\ rebaseInProgress

QuietAttempt ==
  /\ ~startRebase /\ ~dirty /\ ~loc.wasDirty
  /\ loc.err = NoErr /\ loc.rebaseErr = NoErr

C16_AttemptTerminates == (pc \notin {"idle", "done"}) ~> Done


\* C17: when the fetch of the upstream is rejected, featureSync throws that
\* same error unchanged, having called fetch exactly once, and never checks
\* out a branch, pulls, rebases, continues a rebase or launches the
\* external process.
C17_FetchFailurePropagates ==
  (Done /\ loc.err = Err("fetch"))
    => /\ outcome = "thrown" /\ thrown = Err("fetch")
       /\ Count("fetch") = 1
       /\ calls[Len(calls)] \in {"fetch", "abort"}
       /\ \A i \in 1..Len(calls) :
            calls[i] \notin {"checkout", "checkout main", "pull", "rebase",
                             "continue", "stash push", "stash pop", "execa", "write"}

C17_Witness ==
  /\ Done /\ loc.err = Err("fetch") /\ thrown = Err("fetch")
  /\ Count("fetch") = 1


\* C18: when the worktree is not a valid git repository, featureSync throws
\* immediately and attempts no repository mutation: after the existence and
\* repository checks it issues no fetch, checkout, pull, rebase or
\* rebase --abort.
C18_NotARepoTouchesNothing ==
  (Done /\ outcome = "thrown" /\ thrown.kind = "notrepo")
    => calls = <<"existsSync", "checkIsRepo">>


\* C19: when the worktree directory of the feature does not exist,
\* featureSync throws the not-found error immediately: the existence test is
\* all it does, with no git operation, file write or process launch, and
\* the repository is as it was.
C19_MissingWorktreeThrows ==
  (Done /\ projectRootSet /\ ~worktreeExists)
    => /\ outcome = "thrown" /\ thrown = Err("notfound")
       /\ calls = <<"existsSync">>
       /\ rebaseInProgress = startRebase /\ MdExists = startMd

C19_Witness ==
  /\ Done /\ projectRootSet /\ ~worktreeExists
  /\ thrown = Err("notfound") /\ calls = <<"existsSync">>

\* C20: when PROJECT_ROOT is not configured, featureSync throws the
\* configuration error before any filesystem check, git operation or
\* process launch.
C20_MissingProjectRootThrows ==
  (Done /\ ~projectRootSet)
    => /\ outcome = "thrown" /\ thrown = Err("config")
       /\ calls = <<>>
       /\ rebaseInProgress = startRebase /\ MdExists = startMd

C20_Witness ==
  /\ Done /\ ~projectRootSet
  /\ thrown = Err("config") /\ calls = <<>>


\* C21: when the feature worktree has uncommitted modifications as the
\* attempt starts, every git rebase the attempt issues comes after a
\* stash push of the same attempt.
C21_StashBeforeRebase ==
  startDirty =>
    \A i \in 1..Len(calls) :
       calls[i] = "rebase" => \E j \in 1..(i - 1) : calls[j] = "stash push"


\* C22: when restoring the stash is rejected after the rebase succeeded,
\* featureSync still returns the success result (with the warning line in
\* it): it does not throw and issues no rebase --abort.
C22_FailedRestoreIsWarning ==
  (Done /\ loc.popWarning)
    => /\ outcome = "clean"
       /\ \A i \in 1..Len(calls) : calls[i] # "abort"


\* a query made only for the figures of the message was rejected: a log or
\* rev-list query, or the status() read for the ahead count after the rebase
InfoQueryFailed ==
  \/ loc.err.kind \in {"log", "raw"}
  \/ loc.rebaseErr.kind \in {"log", "raw", "status"}

\* C23: the log and commits-ahead queries never gate control flow: when
\* such a query is rejected the attempt still issues its rebase and does
\* not end in a thrown error on account of the query.
C23_InfoQueriesNeverGate ==
  (Done /\ InfoQueryFailed)
    => /\ Count("rebase") = 1
       /\ outcome # "thrown"


\* the attempt entered its delegation branch: it prepared the analysis or
\* the context file for the external process, or launched the process
DelegationEntered ==
  \E i \in 1..Len(calls) : calls[i] \in {"diff", "write", "execa"}

C25_AheadCountIsActual ==
  (Done /\ outcome = "clean") => loc.reportedAhead = loc.actualAhead


\* the marker that opens a line of the path list in the report of a draft
ListMarker ==
  CASE impl \in {"M", "P5", "P8"} -> "- "
    [] impl = "P6" -> "### "
    [] impl = "P7" -> "## "

\* a line of the path list: the marker, then a path
IsPathEntry(line) ==
  Len(line) = 2 /\ line[1] = ListMarker /\ line[2] \in Range(AllPaths)

\* the path list read back from a report, in the order of its lines
RECURSIVE ReadPathList(_)
ReadPathList(md) ==
  IF md = <<>> THEN <<>>
  ELSE (IF IsPathEntry(Head(md)) THEN <<Head(md)[2]>> ELSE <<>>)
       \o ReadPathList(Tail(md))

\* C26: round trip: the path list read back from a conflict report that
\* featureSync has just written is the conflicted list the report was
\* built from, with no path lost, added or repeated.
C26_ReportRoundTrip ==
  [][(conflictsMd' # conflictsMd /\ conflictsMd' # <<>>)
       => ReadPathList(conflictsMd') = loc.conflictedFiles]_vars


\* the fields of a split joined again with one space between them
RECURSIVE JoinWithSpace(_)
JoinWithSpace(fields) ==
  IF fields = <<>> THEN <<>>
  ELSE IF Len(fields) = 1 THEN Head(fields)
  ELSE Head(fields) \o <<" ">> \o JoinWithSpace(Tail(fields))

\* C27: the external process is launched with the command of CLAUDE_COMMAND
\* ('claude' when there is none), with the value of CLAUDE_ARGS cut at its
\* spaces as arguments (the single argument --dangerously-skip-permissions
\* when there is none), with the task prompt as input and the worktree of
\* the feature as working directory.
C27_LaunchParameters ==
  launched # NoLaunch
    => /\ launched.command =
            IF envCommand.set /\ envCommand.val # <<>>
            THEN envCommand.val ELSE <<"claude">>
       /\ IF envArgs.set /\ envArgs.val # <<>>
          THEN /\ JoinWithSpace(launched.args) = envArgs.val
               /\ \A i \in 1..Len(launched.args) : " " \notin Range(launched.args[i])
          ELSE launched.args = << <<"--dangerously-skip-permissions">> >>
       /\ launched.input = "instructions"
       /\ launched.cwd = "worktreePath"

C27_Witness ==
  /\ launched # NoLaunch
  /\ envCommand.set /\ launched.command = <<"custom-claude">>
  /\ envArgs.set /\ Len(launched.args) = 2 /\ launched.args[1] # <<>>


\* C28: feature_cleanup called without force and without all removes the
\* worktree or the branch of a feature only when the pull request of that
\* feature is merged or closed; every other feature keeps both.
C28_OnlyCompletedRemoved ==
  [][(~force /\ ~all)
       => \A f \in Features :
            ((f \in worktrees /\ f \notin worktrees') \/ (f \in branches /\ f \notin branches'))
              => prState[f] \in {"MERGED", "CLOSED"}]_vars


\* the positions in calls of the call c
Positions(c) == {i \in 1..Len(calls) : calls[i] = c}

\* C29: within one attempt fetch, the checkout of the feature branch, the
\* rebase and the launch of the external process each happen at most once
\* and in that order, and the process is launched only after a rejected
\* rebase whose status() listed conflicted paths.
C29_FixedOrderOnce ==
  /\ Count("fetch") <= 1 /\ Count("checkout") <= 1
  /\ Count("rebase") <= 1 /\ Count("execa") <= 1
  /\ \A i \in Positions("checkout") : \E j \in Positions("fetch") : j < i
  /\ \A i \in Positions("rebase") : \E j \in Positions("checkout") : j < i
  /\ \A i \in Positions("execa") : \E j \in Positions("rebase") : j < i
  /\ Count("execa") = 1 => (loc.rebaseErr # NoErr /\ loc.conflictedFiles # <<>>)


\* the paths named in a text, in the order of the text
RECURSIVE PathsIn(_)
PathsIn(text) ==
  IF text = <<>> THEN <<>>
  ELSE (IF Head(text) \in Range(AllPaths) THEN <<Head(text)>> ELSE <<>>)
       \o PathsIn(Tail(text))

\* the file a draft writes to CONFLICTS.md for the conflicted list it captured
ReportOf(files) ==
  CASE impl = "M" -> generateConflictReport(files)
    [] impl = "P5" -> generateConflictAnalysis_P5(files)
    [] impl = "P6" -> createConflictSummary(files)
    [] impl = "P7" -> ContextFile(generateConflictAnalysis_P7(files, loc.diffOk))
    [] impl = "P8" -> generateConflictSummary(files, analyzeConflicts(files, loc.diffOk))

\* C30: the conflicted paths appear in the text for the user, in the task
\* prompt of the external process and in CONFLICTS.md in the order in which
\* status() returned them, none left out and none repeated.
C30_PathOrderPreserved ==
  loc.failSeen = "conflicts"
    => /\ PathsIn(Narrative(loc.conflictedFiles)) = loc.conflictedFiles
       /\ PathsIn(TaskPrompt(loc.conflictedFiles)) = loc.conflictedFiles
       /\ ReadPathList(ReportOf(loc.conflictedFiles)) = loc.conflictedFiles



\* the lines that say of a conflicted path that its file is gone
DeletionMarkers ==
  { <<"File not found (may be a deletion conflict).">>,
    <<"Error reading file: ", "ENOENT">> }

\* the lines that say of a conflicted path that its file has no marker region
BinaryMarkers ==
  { <<"No conflict markers found in file (may be a binary conflict or deletion conflict).">> }

\* the report md has an entry for the path p that is followed by one of the lines
EntryWith(md, p, lines) ==
  \E i \in 1..(Len(md) - 1) :
    /\ Len(md[i]) = 2 /\ md[i][1] \in {"## ", "### "} /\ md[i][2] = p
    /\ md[i + 1] \in lines

\* C31: every conflicted path has an entry in the conflict report that is
\* written; a path whose file cannot be read (deletion conflict) or holds no
\* conflict-marker region (binary or mode conflict) is entered with a line
\* that says so, never dropped and never entered like an ordinary conflict.
C31_EveryPathReported ==
  [][(conflictsMd' # conflictsMd /\ conflictsMd' # <<>>)
       => \A p \in Range(loc.conflictedFiles) :
            /\ p \in ListedPaths(conflictsMd')
            /\ FileKind(p) = "deleted" => EntryWith(conflictsMd', p, DeletionMarkers)
            /\ FileKind(p) = "binary" => EntryWith(conflictsMd', p, BinaryMarkers)]_vars



\* C32: when sync attempts fail one after another, the one CONFLICTS.md of
\* the worktree holds, after each attempt that ends in the manual outcome,
\* paths of that attempt's conflicted set only: no path of the report of an
\* earlier attempt is left in it.
C32_NoStalePaths ==
  (Done /\ outcome = "manual")
    => ListedPaths(conflictsMd) \subseteq Range(loc.conflictedFiles)



\* C33: a sync mutates only the worktree and the branch of its feature: the
\* step that fetches the base leaves every working tree as it was, and when
\* featureSync returns or throws, the primary checkout at the project root
\* has the branch checked out that it had when the call began.
C33_PrimaryCheckoutUntouched ==
  [][/\ calls' = Append(calls, "fetch")
          => UNCHANGED <<treeVars, repoVars, conflictsMd>>
     /\ pc' = "done" => rootBranch' = startRoot']_vars



\* C34: no tool leaves a changed working directory behind: whenever a tool
\* that changes the working directory of the process around its subprocess
\* calls returns or throws, the working directory is the one the call found,
\* on every exit path, the failing ones included.
C34_CwdRestored ==
  (toolPc = "done" /\ running.tool \in {"featureRevision", "featureStart"})
    => cwd = running.cwd



\* C38: a featureStart that fails removes only what this call created: a
\* worktree or a branch of the feature's name that was there before the call
\* is still there when the call has thrown.
C38_OnlyOwnCreationsRemoved ==
  (toolPc = "done" /\ running.tool = "featureStart" /\ toolResult = "thrown")
    => /\ running.featureName \in running.worktrees
            => running.featureName \in worktrees
       /\ running.featureName \in running.branches
            => running.featureName \in branches



\* C35: an attempt issues rebase --abort only against a rebase that it has
\* started itself: when it issues the abort while a rebase is in progress,
\* no rebase was in progress when the attempt began and the attempt has
\* called git rebase.
C35_AbortsOwnRebaseOnly ==
  [][(calls' = Append(calls, "abort") /\ rebaseInProgress)
       => (~startRebase /\ Count("rebase") >= 1)]_vars



\* the attempt has put the uncommitted changes of the worktree on the stash
Stashed ==
  /\ \E i \in 1..Len(calls) : calls[i] = "stash push"
  /\ loc.err # Err("stash push")

\* C36: an attempt that stashed the uncommitted changes at its start issues
\* a stash pop before it returns or throws, on every outcome (clean success,
\* success after resolution, manual intervention, thrown error).
C36_StashRestoredOnEveryOutcome ==
  (Done /\ Stashed) => Count("stash pop") >= 1



\* C37: when a cleanup rebase --abort of a failing attempt is itself
\* rejected, the rejection is swallowed: it does not become the error of the
\* attempt, and if the attempt throws, it throws the error that made it fail.
C37_AbortFailureSwallowed ==
  [][(calls' = Append(calls, "abort") /\ ~GitAbort.ok)
       => /\ loc'.err = loc.err
          /\ (pc' = "done" /\ outcome' = "thrown") => thrown' = loc.err]_vars

=============================================================================
